---- MODULE Spec2Model ----
(***************************************************************************)
(* Model of agent_estimate.core.wave_planner.plan_waves: DAG validation,   *)
(* topological levelisation, LPT bin packing per level, node-weighted      *)
(* critical path and utilisation metrics.                                  *)
(*                                                                         *)
(* Conventions of the model:                                               *)
(*  - a task id is the 1-based position of the task in the input list      *)
(*    (ids are unique); GHOST is an id that no task carries;               *)
(*  - minutes and hours are integers; a quotient of two minute counts is   *)
(*    kept as an unreduced fraction [num, den];                            *)
(*  - a Python dict is a function, a defaultdict(float) a total function   *)
(*    that starts at 0, a list or tuple a sequence.                        *)
(***************************************************************************)
EXTENDS Integers, Sequences, FiniteSets, TLC

(***************************************************************************)
(* Bounds of the input families.                                           *)
(***************************************************************************)
MaxTasks == 3

MaxEdges == 3

MaxDagTasks == 4

MaxLoadTasks == 4

MaxReviewTasks == 3

MaxCapTasks == 2

MaxPar == 2

MaxLptTasks == 5

(***************************************************************************)
(* State: the arguments of plan_waves, the position in the call (pc), the  *)
(* locals of the call and its outcome (plan or error).                     *)
(***************************************************************************)
VARIABLES tasks, agents, inter_wave_overhead_hours, pc, error, generations,
          gen_index, waves, current_time, slot_load, plan

(***************************************************************************)
(* Generic helpers on sequences.                                           *)
(***************************************************************************)
Range(s) == {s[i] : i \in DOMAIN s}

Contains(s, x) == \E i \in DOMAIN s : s[i] = x

Last(s) == s[Len(s)]

RECURSIVE SumSeq(_)
SumSeq(s) == IF s = <<>> THEN 0 ELSE Head(s) + SumSeq(Tail(s))

RECURSIVE Concat(_)
Concat(ss) == IF ss = <<>> THEN <<>> ELSE Head(ss) \o Concat(Tail(ss))

MaxOfSet(S) == CHOOSE x \in S : \A y \in S : y <= x

\* Python: max(seq, key=f) returns the FIRST element whose key is maximal.
FirstMaxIndex(keys) ==
    CHOOSE i \in DOMAIN keys :
        /\ \A j \in DOMAIN keys : keys[j] <= keys[i]
        /\ \A j \in DOMAIN keys : j < i => keys[j] < keys[i]

\* Python: min(seq, key=f) returns the FIRST element whose key is minimal.
FirstMinIndex(keys) ==
    CHOOSE i \in DOMAIN keys :
        /\ \A j \in DOMAIN keys : keys[i] <= keys[j]
        /\ \A j \in DOMAIN keys : j < i => keys[j] > keys[i]

\* First occurrence of every element, in order (a dict keeps insertion order
\* and ignores a repeated key).
RECURSIVE Dedupe(_)
Dedupe(s) ==
    IF s = <<>> THEN <<>>
    ELSE LET r == Dedupe(SubSeq(s, 1, Len(s) - 1))
         IN  IF Contains(r, Last(s)) THEN r ELSE Append(r, Last(s))

Frac(n, d) == [num |-> n, den |-> d]

(***************************************************************************)
(* Input records.                                                          *)
(***************************************************************************)
GHOST == 0

TaskNode(id, dur, deps, caps, review) ==
    [task_id |-> id, duration_minutes |-> dur, dependencies |-> deps,
     required_capabilities |-> caps, review_minutes |-> review]

AgentProfile(name, caps, par) ==
    [name |-> name, capabilities |-> caps, parallelism |-> par]

(***************************************************************************)
(* 1. Build DAG (nx.DiGraph keeps nodes and adjacency in insertion order). *)
(***************************************************************************)
TaskIds(ts) == {ts[i].task_id : i \in DOMAIN ts}

\* Mutant of UnknownDependency: the first dependency of the offending task
\* is reported, whether or not it is the missing one.
UnknownDependencyFirstDep(ts) ==
    LET bad == {i \in DOMAIN ts :
                  \E k \in DOMAIN ts[i].dependencies :
                      ts[i].dependencies[k] \notin TaskIds(ts)}
    IN  IF bad = {} THEN <<>>
        ELSE LET i == CHOOSE x \in bad : \A y \in bad : x <= y
             IN  <<ts[i].task_id, ts[i].dependencies[1]>>

\* First (task, dep) in input order whose dep is not a task id, or <<>>.
UnknownDependency(ts) ==
    LET bad == {i \in DOMAIN ts :
                  \E k \in DOMAIN ts[i].dependencies :
                      ts[i].dependencies[k] \notin TaskIds(ts)}
    IN  IF bad = {} THEN <<>>
        ELSE LET i == CHOOSE x \in bad : \A y \in bad : x <= y
                 d == ts[i].dependencies
                 k == CHOOSE x \in DOMAIN d :
                          /\ d[x] \notin TaskIds(ts)
                          /\ \A y \in 1..(x - 1) : d[y] \in TaskIds(ts)
             IN  <<ts[i].task_id, d[k]>>

\* adj[u]: the tasks that list u as a dependency, in input order.
Successors(ts, u) ==
    LET idx == SelectSeq([i \in DOMAIN ts |-> i],
                         LAMBDA i : Contains(ts[i].dependencies, u))
    IN  [k \in DOMAIN idx |-> ts[idx[k]].task_id]

\* pred[v]: the dependencies of v, in tuple order.
Predecessors(ts, v) ==
    Dedupe(ts[CHOOSE i \in DOMAIN ts : ts[i].task_id = v].dependencies)

NodeList(ts) == [i \in DOMAIN ts |-> ts[i].task_id]

\* Mutant of BuildGraph: every edge is added as (task, dep).
BuildGraphReversed(ts) ==
    [nodes |-> NodeList(ts),
     adj   |-> [u \in TaskIds(ts) |-> Predecessors(ts, u)],
     pred  |-> [v \in TaskIds(ts) |-> Successors(ts, v)]]

\* G.add_node for every task, then G.add_edge(dep, t.task_id) for every task
\* in input order and every dependency in tuple order.
BuildGraph(ts) ==
    [nodes |-> NodeList(ts),
     adj   |-> [u \in TaskIds(ts) |-> Successors(ts, u)],
     pred  |-> [v \in TaskIds(ts) |-> Predecessors(ts, v)]]

(***************************************************************************)
(* nx.topological_generations: Kahn's algorithm, one generation at a time. *)
(* A generation lists its nodes in the order they reached in-degree 0.     *)
(***************************************************************************)
\* One pass over the children of the current generation.
RECURSIVE RelaxChildren(_, _, _)
RelaxChildren(children, indegree_map, zero_indegree) ==
    IF children = <<>> THEN [indegree_map |-> indegree_map,
                             zero_indegree |-> zero_indegree]
    ELSE LET child == Head(children)
             d == indegree_map[child] - 1
         IN  RelaxChildren(Tail(children),
                           [indegree_map EXCEPT ![child] = d],
                           IF d = 0 THEN Append(zero_indegree, child)
                                    ELSE zero_indegree)

RECURSIVE GenerationsFrom(_, _, _)
GenerationsFrom(G, indegree_map, zero_indegree) ==
    IF zero_indegree = <<>> THEN <<>>
    ELSE LET children == Concat([k \in DOMAIN zero_indegree |->
                                    G.adj[zero_indegree[k]]])
             r == RelaxChildren(children, indegree_map, <<>>)
         IN  <<zero_indegree>> \o GenerationsFrom(G, r.indegree_map,
                                                  r.zero_indegree)

\* Mutant of topological_generations: every node is a generation of its own,
\* in topological order.
TopologicalGenerationsOnePerNode(G) ==
    LET indeg == [v \in Range(G.nodes) |-> Len(G.pred[v])]
        order == Concat(GenerationsFrom(G, indeg,
                            SelectSeq(G.nodes, LAMBDA v : indeg[v] = 0)))
    IN  [k \in DOMAIN order |-> <<order[k]>>]

\* The generations produced before the iterator stops (all nodes iff acyclic).
topological_generations(G) ==
    LET indeg == [v \in Range(G.nodes) |-> Len(G.pred[v])]
    IN  GenerationsFrom(G, indeg,
                        SelectSeq(G.nodes, LAMBDA v : indeg[v] = 0))

\* nx.topological_sort yields the generations one after the other.
topological_sort(G) == Concat(topological_generations(G))

\* nx.is_directed_acyclic_graph: the topological sort consumes every node.
is_directed_acyclic_graph(G) == Len(topological_sort(G)) = Len(G.nodes)

(***************************************************************************)
(* nx.find_cycle(G, orientation="original"): a depth-first traversal of    *)
(* the edges (nx.edge_dfs) from every node in node order, keeping the      *)
(* edges of the current path; the first edge whose head is on the path     *)
(* closes the cycle.                                                       *)
(***************************************************************************)
NoneNode == -1

\* The backtracking loop of find_cycle: pop path edges until the path ends
\* at `tail`, or is empty (then only `tail` is active).
RECURSIVE Backtrack(_, _, _)
Backtrack(edges, active_nodes, tail) ==
    IF edges = <<>> THEN [edges |-> <<>>, active_nodes |-> {tail}]
    ELSE LET popped_head == Last(edges)[2]
             rest == SubSeq(edges, 1, Len(edges) - 1)
             act == active_nodes \ {popped_head}
         IN  IF rest # <<>> /\ tail = Last(rest)[2]
             THEN [edges |-> rest, active_nodes |-> act]
             ELSE Backtrack(rest, act, tail)

\* d is the traversal state from one start node: the stack and the per-node
\* edge iterators of edge_dfs, and edges/seen/active_nodes/previous_head of
\* find_cycle.  Returns the edges collected when a cycle closes, or the
\* nodes seen when the traversal ends without one.
RECURSIVE CycleSearch(_, _, _)
CycleSearch(G, explored, d) ==
    IF d.stack = <<>> THEN [cycle |-> <<>>, final_node |-> NoneNode,
                            seen |-> d.seen]
    ELSE
      LET current_node == Last(d.stack)
          k == d.next[current_node]
      IN
      IF k > Len(G.adj[current_node])
      THEN CycleSearch(G, explored,
                       [d EXCEPT !.stack = SubSeq(d.stack, 1, Len(d.stack) - 1)])
      ELSE
        LET head == G.adj[current_node][k]
            tail == current_node
            edge == <<tail, head>>
            dfs == [d EXCEPT !.stack = Append(d.stack, head),
                             !.next[current_node] = k + 1]
        IN
        IF head \in explored THEN CycleSearch(G, explored, dfs)
        ELSE
          LET b == IF d.previous_head # NoneNode /\ tail # d.previous_head
                   THEN Backtrack(d.edges, d.active_nodes, tail)
                   ELSE [edges |-> d.edges, active_nodes |-> d.active_nodes]
              edges == Append(b.edges, edge)
          IN  IF head \in b.active_nodes
              THEN [cycle |-> edges, final_node |-> head, seen |-> d.seen]
              ELSE CycleSearch(G, explored,
                     [dfs EXCEPT !.edges = edges,
                                 !.seen = d.seen \cup {head},
                                 !.active_nodes = b.active_nodes \cup {head},
                                 !.previous_head = head])

\* The loop over start nodes; i is the position in G.nodes.
RECURSIVE CycleFrom(_, _, _)
CycleFrom(G, i, explored) ==
    IF i > Len(G.nodes) THEN [cycle |-> <<>>, final_node |-> NoneNode]
    ELSE LET start_node == G.nodes[i]
         IN  IF start_node \in explored THEN CycleFrom(G, i + 1, explored)
             ELSE LET r == CycleSearch(G, explored,
                              [stack |-> <<start_node>>,
                               next |-> [v \in Range(G.nodes) |-> 1],
                               edges |-> <<>>,
                               seen |-> {start_node},
                               active_nodes |-> {start_node},
                               previous_head |-> NoneNode])
                  IN  IF r.cycle # <<>>
                      THEN [cycle |-> r.cycle, final_node |-> r.final_node]
                      ELSE CycleFrom(G, i + 1, explored \cup r.seen)

\* Mutant of TrimCycle: the edges that lead to the cycle are kept.
TrimCycleKeepAll(cycle, final_node) == cycle

\* Drop the edges that lead to the cycle: keep from the first edge whose
\* tail is final_node.
TrimCycle(cycle, final_node) ==
    LET i == CHOOSE x \in DOMAIN cycle :
                 /\ cycle[x][1] = final_node
                 /\ \A y \in 1..(x - 1) : cycle[y][1] # final_node
    IN  SubSeq(cycle, i, Len(cycle))

find_cycle(G) ==
    LET r == CycleFrom(G, 1, {})
    IN  TrimCycle(r.cycle, r.final_node)

\* cycle_path = [u for u, _v, _dir in cycle] + [cycle[0][0]]
CyclePath(cycle) == [k \in DOMAIN cycle |-> cycle[k][1]] \o <<cycle[1][1]>>

(***************************************************************************)
(* 3. Expand agent slots: (agent_name, slot_index) with the agent's caps.  *)
(***************************************************************************)
\* Mutant of ExpandSlots: the slots of an agent are numbered from 1.
ExpandSlotsOneBased(ags) ==
    Concat([a \in DOMAIN ags |->
              [i \in 1..ags[a].parallelism |->
                  [name |-> ags[a].name, idx |-> i,
                   caps |-> ags[a].capabilities]]])

ExpandSlots(ags) ==
    Concat([a \in DOMAIN ags |->
              [i \in 1..ags[a].parallelism |->
                  [name |-> ags[a].name, idx |-> i - 1,
                   caps |-> ags[a].capabilities]]])

SlotKeys(slots) == {<<slots[k].name, slots[k].idx>> : k \in DOMAIN slots}

ZeroLoad(slots) == [s \in SlotKeys(slots) |-> 0]

(***************************************************************************)
(* 5. LPT bin packing of one generation.                                   *)
(***************************************************************************)
\* Mutant of SortedTasks: the generation is packed in the order it comes.
SortedTasksUnsorted(generation, ts) == generation

\* sorted(generation, key=duration, reverse=True): stable, so tasks of equal
\* duration keep the order they have in the generation.
RECURSIVE SortedTasks(_, _)
SortedTasks(generation, ts) ==
    IF generation = <<>> THEN <<>>
    ELSE LET r == SortedTasks(SubSeq(generation, 1, Len(generation) - 1), ts)
             x == Last(generation)
             smaller == {k \in DOMAIN r :
                           ts[r[k]].duration_minutes < ts[x].duration_minutes}
             pos == IF smaller = {} THEN Len(r) + 1
                    ELSE CHOOSE k \in smaller : \A j \in smaller : k <= j
         IN  SubSeq(r, 1, pos - 1) \o <<x>> \o SubSeq(r, pos, Len(r))

\* Mutant of Eligible: the capability filter is dropped.
EligibleAnySlot(slots, required) ==
    [k \in DOMAIN slots |-> <<slots[k].name, slots[k].idx>>]

\* eligible = [(name, idx) for name, idx, caps in slots if required <= caps]
Eligible(slots, required) ==
    LET e == SelectSeq(slots, LAMBDA s : required \subseteq s.caps)
    IN  [k \in DOMAIN e |-> <<e[k].name, e[k].idx>>]

\* Mutant of BestSlot: the load of the earlier waves is counted too.
BestSlotCumulative(eligible, wave_bin_load) ==
    eligible[FirstMinIndex([k \in DOMAIN eligible |->
                               slot_load[eligible[k]]
                               + wave_bin_load[eligible[k]]])]

\* best = min(eligible, key=lambda s: wave_bin_load[s])
BestSlot(eligible, wave_bin_load) ==
    eligible[FirstMinIndex([k \in DOMAIN eligible |-> wave_bin_load[eligible[k]]])]

\* Mutant of AssignTasks: a task without an eligible slot is left out and
\* the loop goes on.
RECURSIVE AssignTasksSkipIneligible(_, _, _, _)
AssignTasksSkipIneligible(sorted_tasks, ts, slots, p) ==
    IF sorted_tasks = <<>> THEN p
    ELSE LET tid == Head(sorted_tasks)
             node == ts[tid]
             eligible == Eligible(slots, node.required_capabilities)
         IN  IF eligible = <<>>
             THEN AssignTasksSkipIneligible(Tail(sorted_tasks), ts, slots, p)
             ELSE LET best == BestSlot(eligible, p.wave_bin_load)
                  IN  AssignTasksSkipIneligible(Tail(sorted_tasks), ts, slots,
                        [p EXCEPT
                           !.wave_bin_load[best] = @ + node.duration_minutes,
                           !.slot_load[best] = @ + node.duration_minutes,
                           !.assignments = Append(@,
                               [task_id |-> tid,
                                agent_name |-> best[1],
                                slot_index |-> best[2],
                                duration_minutes |-> node.duration_minutes,
                                co_dispatch_group |-> <<>>])])

\* The loop over sorted_tasks; p carries wave_bin_load, slot_load and the
\* assignments so far.  Stops at the first task without an eligible slot.
RECURSIVE AssignTasks(_, _, _, _)
AssignTasks(sorted_tasks, ts, slots, p) ==
    IF sorted_tasks = <<>> THEN p
    ELSE LET tid == Head(sorted_tasks)
             node == ts[tid]
             required == node.required_capabilities
             eligible == Eligible(slots, required)
         IN  IF eligible = <<>>
             THEN [p EXCEPT !.ok = FALSE, !.task = tid, !.required = required]
             ELSE LET best == BestSlot(eligible, p.wave_bin_load)
                  IN  AssignTasks(Tail(sorted_tasks), ts, slots,
                        [p EXCEPT
                           !.wave_bin_load[best] = @ + node.duration_minutes,
                           !.slot_load[best] = @ + node.duration_minutes,
                           !.assignments = Append(@,
                               [task_id |-> tid,
                                agent_name |-> best[1],
                                slot_index |-> best[2],
                                duration_minutes |-> node.duration_minutes,
                                co_dispatch_group |-> <<>>])])

PackGeneration(generation, ts, slots, load) ==
    AssignTasks(SortedTasks(generation, ts), ts, slots,
                [ok |-> TRUE, task |-> GHOST, required |-> {},
                 wave_bin_load |-> ZeroLoad(slots), slot_load |-> load,
                 assignments |-> <<>>])

\* Mutant of WaveMakespan: the smallest bin load is taken.
WaveMakespanSmallest(wave_bin_load) ==
    CHOOSE x \in {wave_bin_load[s] : s \in DOMAIN wave_bin_load} :
        \A s \in DOMAIN wave_bin_load : x <= wave_bin_load[s]

\* wave_makespan = max(wave_bin_load.values())
WaveMakespan(wave_bin_load) ==
    MaxOfSet({wave_bin_load[s] : s \in DOMAIN wave_bin_load})

\* Wave(wave_number, start, end, assignments): agent_review_minutes keeps
\* its default, the empty mapping.
NoReview == [a \in {} |-> 0]

MakeWave(gen_idx, wave_start, wave_makespan, assignments) ==
    [wave_number |-> gen_idx,
     start_minutes |-> wave_start,
     end_minutes |-> wave_start + wave_makespan,
     assignments |-> assignments,
     agent_review_minutes |-> NoReview]

\* Mutant of OverheadMinutes: the argument is taken as minutes.
OverheadAsMinutes(hours) == hours

\* overhead_minutes = inter_wave_overhead_hours * 60
OverheadMinutes(hours) == hours * 60

\* Mutant of AdvanceTime: the overhead is never inserted.
AdvanceTimeNoGap(wave_end, gen_idx, generation_count, overhead_minutes) ==
    wave_end

\* current_time after a wave: its end, plus the overhead unless it is the
\* last generation.
AdvanceTime(wave_end, gen_idx, generation_count, overhead_minutes) ==
    IF gen_idx < generation_count - 1 THEN wave_end + overhead_minutes
    ELSE wave_end

(***************************************************************************)
(* 6. Critical path: node-weighted longest path by DP in topological order.*)
(***************************************************************************)
\* Mutant of BestPred: the first predecessor, whatever its distance.
FirstPred(predecessors, dist) == predecessors[1]

\* best_pred = max(predecessors, key=lambda u: dist[u])
BestPred(predecessors, dist) ==
    predecessors[FirstMaxIndex([k \in DOMAIN predecessors |->
                                   dist[predecessors[k]]])]

\* The loop over topo_order from position i; c carries dist and prev.
RECURSIVE LongestPaths(_, _, _, _, _)
LongestPaths(G, ts, topo_order, i, c) ==
    IF i > Len(topo_order) THEN c
    ELSE LET v == topo_order[i]
             predecessors == G.pred[v]
         IN  IF predecessors = <<>>
             THEN LongestPaths(G, ts, topo_order, i + 1,
                    [dist |-> [c.dist EXCEPT ![v] = ts[v].duration_minutes],
                     prev |-> [c.prev EXCEPT ![v] = NoneNode]])
             ELSE LET best_pred == BestPred(predecessors, c.dist)
                  IN  LongestPaths(G, ts, topo_order, i + 1,
                        [dist |-> [c.dist EXCEPT
                                     ![v] = c.dist[best_pred]
                                            + ts[v].duration_minutes],
                         prev |-> [c.prev EXCEPT ![v] = best_pred]])

\* Follow prev from node back to a root; the path is returned root first.
RECURSIVE PathTo(_, _)
PathTo(prev, node) ==
    IF node = NoneNode THEN <<>> ELSE Append(PathTo(prev, prev[node]), node)

CriticalPath(G, ts) ==
    LET topo_order == topological_sort(G)
        c == LongestPaths(G, ts, topo_order, 1,
                          [dist |-> [v \in Range(G.nodes) |-> 0],
                           prev |-> [v \in Range(G.nodes) |-> NoneNode]])
        end_node == topo_order[FirstMaxIndex([k \in DOMAIN topo_order |->
                                                 c.dist[topo_order[k]]])]
    IN  [critical_path |-> PathTo(c.prev, end_node),
         critical_path_minutes |-> c.dist[end_node]]

(***************************************************************************)
(* 7. Metrics.                                                             *)
(***************************************************************************)
AgentNames(ags) == {ags[a].name : a \in DOMAIN ags}

\* Mutant of AgentBusy: only the first slot of every agent is counted.
AgentBusyFirstSlot(ags, slots, load) ==
    [n \in AgentNames(ags) |->
        SumSeq([k \in DOMAIN slots |->
                   IF slots[k].name = n /\ slots[k].idx = 0
                   THEN load[<<slots[k].name, slots[k].idx>>]
                   ELSE 0])]

\* Mutant of AgentBusy: every agent is credited with the load of all slots.
AgentBusyAllSlots(ags, slots, load) ==
    [n \in AgentNames(ags) |->
        SumSeq([k \in DOMAIN slots |-> load[<<slots[k].name, slots[k].idx>>]])]

\* agent_busy[name] = sum of slot_load over the slots of that agent
AgentBusy(ags, slots, load) ==
    [n \in AgentNames(ags) |->
        SumSeq([k \in DOMAIN slots |->
                   IF slots[k].name = n THEN load[<<slots[k].name, slots[k].idx>>]
                   ELSE 0])]

\* Mutant of EmptyPlan: the efficiency of an empty plan is reported as 1.
EmptyPlanFullEfficiency ==
    [waves |-> <<>>,
     critical_path |-> <<>>,
     critical_path_minutes |-> 0,
     agent_utilization |-> [a \in {} |-> Frac(0, 1)],
     parallel_efficiency |-> Frac(1, 1),
     total_wall_clock_minutes |-> 0,
     total_sequential_minutes |-> 0]

\* The plan returned for an empty task list (lines 44-53).
EmptyPlan ==
    [waves |-> <<>>,
     critical_path |-> <<>>,
     critical_path_minutes |-> 0,
     agent_utilization |-> [a \in {} |-> Frac(0, 1)],
     parallel_efficiency |-> Frac(0, 1),
     total_wall_clock_minutes |-> 0,
     total_sequential_minutes |-> 0]

\* total_sequential = sum(t.duration_minutes for t in tasks)
TotalSequential(ts) == SumSeq([i \in DOMAIN ts |-> ts[i].duration_minutes])

\* Lines 204-207 and 210: busy / total_wall_clock for every input agent,
\* 0.0 for every input agent when the wall clock is 0.
AgentUtilization(ags, agent_busy, total_wall_clock) ==
    IF total_wall_clock > 0
    THEN [n \in AgentNames(ags) |-> Frac(agent_busy[n], total_wall_clock)]
    ELSE [n \in AgentNames(ags) |-> Frac(0, 1)]

\* Mutant of ParallelEfficiency: no cap, and the slots are not counted.
ParallelEfficiencyPerWallClock(total_sequential, slots, total_wall_clock) ==
    IF total_wall_clock > 0 THEN Frac(total_sequential, total_wall_clock)
    ELSE Frac(0, 1)

\* Mutant of ParallelEfficiency: the agents are counted, not their slots.
ParallelEfficiencyPerAgent(total_sequential, slots, total_wall_clock) ==
    LET agent_count == Cardinality({slots[k].name : k \in DOMAIN slots})
    IN  IF total_wall_clock > 0
        THEN IF total_sequential >= agent_count * total_wall_clock
             THEN Frac(1, 1)
             ELSE Frac(total_sequential, agent_count * total_wall_clock)
        ELSE Frac(0, 1)

\* min(1.0, total_sequential / (len(slots) * total_wall_clock)), or 0.0 when
\* the wall clock is 0.
ParallelEfficiency(total_sequential, slots, total_wall_clock) ==
    IF total_wall_clock > 0
    THEN IF total_sequential >= Len(slots) * total_wall_clock
         THEN Frac(1, 1)
         ELSE Frac(total_sequential, Len(slots) * total_wall_clock)
    ELSE Frac(0, 1)

BuildPlan(ts, ags, ws, load) ==
    LET G == BuildGraph(ts)
        slots == ExpandSlots(ags)
        cp == CriticalPath(G, ts)
        total_wall_clock == IF ws # <<>> THEN Last(ws).end_minutes ELSE 0
        total_sequential == TotalSequential(ts)
        agent_busy == AgentBusy(ags, slots, load)
    IN  [waves |-> ws,
         critical_path |-> cp.critical_path,
         critical_path_minutes |-> cp.critical_path_minutes,
         agent_utilization |->
            AgentUtilization(ags, agent_busy, total_wall_clock),
         parallel_efficiency |->
            ParallelEfficiency(total_sequential, slots, total_wall_clock),
         total_wall_clock_minutes |-> total_wall_clock,
         total_sequential_minutes |-> total_sequential]

(***************************************************************************)
(* Input families.  Every input is a call plan_waves(tasks, agents,        *)
(* inter_wave_overhead_hours); a family is the set of calls it draws.      *)
(***************************************************************************)
Alpha(caps, par) == AgentProfile("alpha", caps, par)

Beta(caps, par) == AgentProfile("beta", caps, par)

\* One agent, or two agents, with capability sets from capsets and
\* 1..MaxPar slots each.
Rosters(capsets) ==
    {<<Alpha(c, p)>> : c \in capsets, p \in 1..MaxPar}
    \cup {<<Alpha(c[1], p[1]), Beta(c[2], p[2])>> :
            c \in capsets \X capsets, p \in (1..MaxPar) \X (1..MaxPar)}

\* The m-th pair <<dep, task>> of (0..n) \X (1..n), m in 1..(n+1)*n.
EdgeAt(m, n) == <<(m - 1) \div n, ((m - 1) % n) + 1>>

\* The sets of at most k edges <<dep, task>> between n tasks, GHOST and
\* self-dependencies included.
EdgeSets(n, k) ==
    UNION {{{EdgeAt(f[i], n) : i \in 1..m} :
              f \in {g \in [1..m -> 1..((n + 1) * n)] :
                       \A i \in 1..(m - 1) : g[i] < g[i + 1]}} :
           m \in 0..k}

\* The ascending sequence of the elements of a set of integers.
RECURSIVE SeqOfSet(_)
SeqOfSet(S) ==
    IF S = {} THEN <<>>
    ELSE LET m == MaxOfSet(S) IN Append(SeqOfSet(S \ {m}), m)

\* The dependency tuple of task j under the edge set E (pairs <<dep, task>>).
DepsOf(E, j, n) == SeqOfSet({i \in 0..n : <<i, j>> \in E})

\* Sequences of distinct elements of S, of length at most k.
RECURSIVE DistinctSeqs(_, _)
DistinctSeqs(S, k) ==
    IF k = 0 THEN {<<>>}
    ELSE {<<>>} \cup UNION {{<<x>> \o r : r \in DistinctSeqs(S \ {x}, k - 1)} :
                            x \in S}

\* Dependencies in one or two layers: either none, or every later task
\* depends on the first one.
Layers(n) == {[j \in 1..n |-> <<>>],
              [j \in 1..n |-> IF j = 1 THEN <<>> ELSE <<1>>]}

(***************************************************************************)
(* State of one call of plan_waves.                                        *)
(***************************************************************************)
vars == <<tasks, agents, inter_wave_overhead_hours, pc, error, generations,
          gen_index, waves, current_time, slot_load, plan>>

\* A ValueError and what its message states.
Error(kind, task, dep, cycle_path, required, value) ==
    [kind |-> kind, task |-> task, dep |-> dep, cycle_path |-> cycle_path,
     required |-> required, value |-> value]

NoError == Error("none", GHOST, GHOST, <<>>, {}, 0)

NoPlan == "none"

\* The call under way: plan_waves(ts, ags, hours).
Called(ts, ags, hours) ==
    /\ tasks = ts
    /\ agents = ags
    /\ inter_wave_overhead_hours = hours

\* Family 1: arbitrary dependency graphs of at most MaxEdges edges (cycles,
\* self-dependencies, unknown ids) in any input order, with or without an
\* agent.  Durations alternate 10, 20 along the input.
GraphInputs ==
    \E n \in 0..MaxTasks :
    \E E \in EdgeSets(n, MaxEdges) :
    \E ags \in {<<>>, <<Alpha({"code"}, 1)>>} :
        Called([j \in 1..n |->
                   TaskNode(j, IF j % 2 = 1 THEN 10 ELSE 20,
                            DepsOf(E, j, n), {}, 0)],
               ags, 0)

\* Family 2: acyclic graphs listed in a topological order, two durations,
\* one agent with two slots, one hour between waves.
DagInputs ==
    \E n \in 1..MaxDagTasks :
    \E E \in SUBSET {e \in (1..n) \X (1..n) : e[1] < e[2]} :
    \E dur \in [1..n -> {10, 20}] :
        Called([j \in 1..n |-> TaskNode(j, dur[j], DepsOf(E, j, n), {}, 0)],
               <<Alpha({"code"}, 2)>>, 1)

\* Family 3: one generation of independent tasks, four durations.
LoadInputs ==
    \E n \in 1..MaxLoadTasks :
    \E dur \in [1..n -> {10, 20, 30, 40}] :
    \E ags \in Rosters({{"code"}}) :
        Called([j \in 1..n |-> TaskNode(j, dur[j], <<>>, {}, 0)], ags, 0)

\* Family 4: review minutes, zero durations, one or two generations.
ReviewInputs ==
    \E n \in 1..MaxReviewTasks :
    \E dur \in [1..n -> {0, 20}] :
    \E rev \in [1..n -> {0, 5, 15}] :
    \E deps \in Layers(n) :
    \E ags \in {<<Alpha({"code"}, 1)>>, <<Alpha({"code"}, 2)>>,
                <<Alpha({"code"}, 1), Beta({"code"}, 1)>>} :
    \E h \in {0, 1} :
        Called([j \in 1..n |-> TaskNode(j, dur[j], deps[j], {}, rev[j])],
               ags, h)

\* Family 5: required capabilities against rosters of mixed capability.
CapInputs ==
    \E n \in 1..MaxCapTasks :
    \E dur \in [1..n -> {10, 20}] :
    \E caps \in [1..n -> {{}, {"deploy"}}] :
    \E deps \in Layers(n) :
    \E ags \in Rosters({{"code"}, {"code", "deploy"}}) :
        Called([j \in 1..n |-> TaskNode(j, dur[j], deps[j], caps[j], 0)],
               ags, 0)

\* Family 6: inputs that break several preconditions at once: up to two
\* tasks whose dependency tuples (in any order) name any id or GHOST, a
\* capability nobody has, an empty roster, a negative overhead.
PrecedenceInputs ==
    \E n \in 0..2 :
    \E deps \in [1..n -> DistinctSeqs(0..n, 2)] :
    \E caps \in {{}, {"magic"}} :
    \E ags \in {<<>>, <<Alpha({"code"}, 1)>>} :
    \E h \in {-1, 0, 1} :
        Called([j \in 1..n |->
                   TaskNode(j, 10, deps[j], IF j = 1 THEN caps ELSE {}, 0)],
               ags, h)

\* Family 7: one generation of up to MaxLptTasks independent tasks of two
\* durations on the slots of one agent.
LptInputs ==
    \E n \in 1..MaxLptTasks :
    \E dur \in [1..n -> {20, 30}] :
    \E p \in 1..MaxPar :
        Called([j \in 1..n |-> TaskNode(j, dur[j], <<>>, {}, 0)],
               <<Alpha({"code"}, p)>>, 0)

Init ==
    /\ \/ GraphInputs
       \/ DagInputs
       \/ LoadInputs
       \/ ReviewInputs
       \/ CapInputs
       \/ PrecedenceInputs
       \/ LptInputs
    /\ pc = "start"
    /\ error = NoError
    /\ generations = <<>>
    /\ gen_index = 0
    /\ waves = <<>>
    /\ current_time = 0
    /\ slot_load = <<>>
    /\ plan = NoPlan

Raise(e) ==
    /\ pc' = "raised"
    /\ error' = e
    /\ UNCHANGED <<generations, gen_index, waves, current_time, slot_load, plan>>

\* Mutant of InvalidOverhead: only values below -1 are rejected.
InvalidOverheadBelowMinusOne(hours) == hours < 0 - 1

\* if inter_wave_overhead_hours < 0
InvalidOverhead(hours) == hours < 0

\* Mutant of NoAgents: the roster is never found empty.
NoAgentsNever(ags) == FALSE

\* if not agents
NoAgents(ags) == ags = <<>>

\* Mutant of Validate: the roster is checked before the graph is built.
ValidateRosterFirst ==
    /\ pc = "start"
    /\ UNCHANGED <<tasks, agents, inter_wave_overhead_hours>>
    /\ IF InvalidOverhead(inter_wave_overhead_hours)
       THEN Raise(Error("InvalidOverhead", GHOST, GHOST, <<>>, {},
                        inter_wave_overhead_hours))
       ELSE IF tasks = <<>>
       THEN /\ pc' = "returned"
            /\ plan' = EmptyPlan
            /\ UNCHANGED <<error, generations, gen_index, waves, current_time,
                           slot_load>>
       ELSE IF NoAgents(agents)
       THEN Raise(Error("NoAgentsProvided", GHOST, GHOST, <<>>, {}, 0))
       ELSE IF UnknownDependency(tasks) # <<>>
       THEN Raise(Error("UnknownDependency", UnknownDependency(tasks)[1],
                        UnknownDependency(tasks)[2], <<>>, {}, 0))
       ELSE IF ~is_directed_acyclic_graph(BuildGraph(tasks))
       THEN Raise(Error("CycleDetected", GHOST, GHOST,
                        CyclePath(find_cycle(BuildGraph(tasks))), {}, 0))
       ELSE /\ pc' = "packing"
            /\ generations' = topological_generations(BuildGraph(tasks))
            /\ gen_index' = 0
            /\ waves' = <<>>
            /\ current_time' = 0
            /\ slot_load' = ZeroLoad(ExpandSlots(agents))
            /\ UNCHANGED <<error, plan>>

\* Lines 39-104: the checks in source order, then the set-up of the loop.
Validate ==
    /\ pc = "start"
    /\ UNCHANGED <<tasks, agents, inter_wave_overhead_hours>>
    /\ IF InvalidOverhead(inter_wave_overhead_hours)
       THEN Raise(Error("InvalidOverhead", GHOST, GHOST, <<>>, {},
                        inter_wave_overhead_hours))
       ELSE IF tasks = <<>>
       THEN /\ pc' = "returned"
            /\ plan' = EmptyPlan
            /\ UNCHANGED <<error, generations, gen_index, waves, current_time,
                           slot_load>>
       ELSE IF UnknownDependency(tasks) # <<>>
       THEN Raise(Error("UnknownDependency", UnknownDependency(tasks)[1],
                        UnknownDependency(tasks)[2], <<>>, {}, 0))
       ELSE IF ~is_directed_acyclic_graph(BuildGraph(tasks))
       THEN Raise(Error("CycleDetected", GHOST, GHOST,
                        CyclePath(find_cycle(BuildGraph(tasks))), {}, 0))
       ELSE IF NoAgents(agents)
       THEN Raise(Error("NoAgentsProvided", GHOST, GHOST, <<>>, {}, 0))
       ELSE /\ pc' = "packing"
            /\ generations' = topological_generations(BuildGraph(tasks))
            /\ gen_index' = 0
            /\ waves' = <<>>
            /\ current_time' = 0
            /\ slot_load' = ZeroLoad(ExpandSlots(agents))
            /\ UNCHANGED <<error, plan>>

\* Lines 106-161: one iteration of the loop over the generations.
PackWave ==
    /\ pc = "packing"
    /\ UNCHANGED <<tasks, agents, inter_wave_overhead_hours, generations>>
    /\ LET p == PackGeneration(generations[gen_index + 1], tasks,
                               ExpandSlots(agents), slot_load)
           wave == MakeWave(gen_index, current_time,
                            WaveMakespan(p.wave_bin_load), p.assignments)
       IN  IF ~p.ok
           THEN Raise(Error("NoEligibleAgent", p.task, GHOST, <<>>,
                            p.required, 0))
           ELSE /\ waves' = Append(waves, wave)
                /\ slot_load' = p.slot_load
                /\ current_time' =
                      AdvanceTime(wave.end_minutes, gen_index, Len(generations),
                                  OverheadMinutes(inter_wave_overhead_hours))
                /\ gen_index' = gen_index + 1
                /\ pc' = IF gen_index + 1 < Len(generations) THEN "packing"
                         ELSE "metrics"
                /\ UNCHANGED <<error, plan>>

\* Lines 168-221: critical path, metrics and the returned WavePlan.
Finish ==
    /\ pc = "metrics"
    /\ pc' = "returned"
    /\ plan' = BuildPlan(tasks, agents, waves, slot_load)
    /\ UNCHANGED <<tasks, agents, inter_wave_overhead_hours, error,
                   generations, gen_index, waves, current_time, slot_load>>

Next == Validate \/ PackWave \/ Finish

Spec == Init /\ [][Next]_vars

(***************************************************************************)
(* Vocabulary of the properties, stated on the inputs and on the returned  *)
(* plan, independently of the operators that compute the plan.             *)
(***************************************************************************)
Returned == pc = "returned"

Raised(kind) == pc = "raised" /\ error.kind = kind

\* u is a dependency of v.
DependsOn(u, v) == Contains(tasks[v].dependencies, u)

AllDependenciesKnown ==
    \A i \in DOMAIN tasks : Range(tasks[i].dependencies) \subseteq TaskIds(tasks)

\* The pairs <<u, v>> joined by a path of at most 2^k edges of R.
RECURSIVE PathPairs(_, _)
PathPairs(R, k) ==
    IF k = 0 THEN R
    ELSE LET P == PathPairs(R, k - 1)
         IN  P \cup {<<q[1][1], q[2][2]>> :
                        q \in {r \in P \X P : r[1][2] = r[2][1]}}

DependencyEdges ==
    {e \in TaskIds(tasks) \X TaskIds(tasks) : DependsOn(e[1], e[2])}

\* Some task depends on itself, directly or through other tasks.
DependencyCycle ==
    \E e \in PathPairs(DependencyEdges, Len(tasks)) : e[1] = e[2]

\* The waves (1-based positions in ws) that hold an assignment of task tid.
WavesOf(ws, tid) ==
    {k \in DOMAIN ws : \E i \in DOMAIN ws[k].assignments :
                          ws[k].assignments[i].task_id = tid}

\* The profile of the agent called name.
AgentNamed(name) == agents[CHOOSE a \in DOMAIN agents : agents[a].name = name]

(***************************************************************************)
(* C1. In a returned plan every task is in a wave strictly later than the  *)
(* wave of each of its dependencies.                                       *)
(***************************************************************************)
C1_TopologicalRespect ==
    Returned =>
        \A v \in TaskIds(tasks) : \A u \in Range(tasks[v].dependencies) :
            \A kv \in WavesOf(plan.waves, v) :
                /\ WavesOf(plan.waves, u) # {}
                /\ \A ku \in WavesOf(plan.waves, u) : ku < kv

\* A plan of three waves or more in which some task has two dependencies
\* that sit in different waves.
C1_Witness ==
    /\ Returned
    /\ Len(plan.waves) >= 3
    /\ \E v \in TaskIds(tasks) : \E u1, u2 \in Range(tasks[v].dependencies) :
          WavesOf(plan.waves, u1) # WavesOf(plan.waves, u2)

(***************************************************************************)
(* C2. A non-empty task set with known dependency ids, a dependency cycle  *)
(* and a non-negative overhead never yields a plan: the call raises the    *)
(* cycle error, and the ids of its message start and end with the same id  *)
(* and each is a dependency of the next.                                   *)
(***************************************************************************)
ValidCyclePath(path) ==
    /\ Len(path) >= 2
    /\ path[1] = path[Len(path)]
    /\ \A i \in 1..(Len(path) - 1) :
          /\ path[i] \in TaskIds(tasks)
          /\ path[i + 1] \in TaskIds(tasks)
          /\ DependsOn(path[i], path[i + 1])

C2_CycleRaises ==
    (/\ pc # "start"
     /\ tasks # <<>>
     /\ inter_wave_overhead_hours >= 0
     /\ AllDependenciesKnown
     /\ DependencyCycle)
    => /\ Raised("CycleDetected")
       /\ ValidCyclePath(error.cycle_path)

\* A cycle of two tasks or more that the first task only leads into.
C2_Witness ==
    /\ Raised("CycleDetected")
    /\ Len(error.cycle_path) >= 3
    /\ ~Contains(error.cycle_path, tasks[1].task_id)
    /\ \E v \in Range(error.cycle_path) : DependsOn(tasks[1].task_id, v)

(***************************************************************************)
(* C3. Every assignment of a returned plan is to an agent whose            *)
(* capabilities include the required capabilities of the task.             *)
(***************************************************************************)
C3_CapabilityEnforced ==
    Returned =>
        \A k \in DOMAIN plan.waves : \A i \in DOMAIN plan.waves[k].assignments :
            LET a == plan.waves[k].assignments[i]
            IN  tasks[a.task_id].required_capabilities
                    \subseteq AgentNamed(a.agent_name).capabilities

\* A task with a requirement shares a slot with an earlier task of its wave
\* while an agent that lacks the capability has an idle slot.
C3_Witness ==
    /\ Returned
    /\ \E k \in DOMAIN plan.waves : \E i, j \in DOMAIN plan.waves[k].assignments :
          LET a == plan.waves[k].assignments[i]
              b == plan.waves[k].assignments[j]
          IN  /\ j < i
              /\ tasks[a.task_id].required_capabilities # {}
              /\ a.agent_name = b.agent_name /\ a.slot_index = b.slot_index
              /\ \E g \in DOMAIN agents :
                    /\ ~(tasks[a.task_id].required_capabilities
                           \subseteq agents[g].capabilities)
                    /\ \A m \in DOMAIN plan.waves[k].assignments :
                          plan.waves[k].assignments[m].agent_name # agents[g].name

(***************************************************************************)
(* Quantities of the co-dispatch and review rules, computed from the       *)
(* inputs and from who was assigned what, not from the recorded minutes.   *)
(***************************************************************************)
\* Assignment i is the first of its agent in wave w, in assignment order.
FirstOfAgent(w, i) ==
    \A j \in 1..(i - 1) :
        w.assignments[j].agent_name # w.assignments[i].agent_name

RawMinutes(a) == tasks[a.task_id].duration_minutes

\* Twice the duration an assignment has under the half-price rule.
TwiceDiscounted(w, i) ==
    IF FirstOfAgent(w, i) THEN 2 * RawMinutes(w.assignments[i])
    ELSE RawMinutes(w.assignments[i])

AgentsIn(w) == {w.assignments[i].agent_name : i \in DOMAIN w.assignments}

SlotsIn(w) == {<<w.assignments[i].agent_name, w.assignments[i].slot_index>> :
                 i \in DOMAIN w.assignments}

OnSlot(a, slot) == a.agent_name = slot[1] /\ a.slot_index = slot[2]

\* The largest review_minutes among the tasks of agent name in wave w.
LargestReview(w, name) ==
    MaxOfSet({tasks[w.assignments[i].task_id].review_minutes :
                i \in {j \in DOMAIN w.assignments :
                         w.assignments[j].agent_name = name}})

(***************************************************************************)
(* C4. In every wave the first task of an agent (in assignment order)      *)
(* keeps its raw duration and every later task of that agent in that wave  *)
(* has exactly half its raw duration; the count restarts in each wave.     *)
(***************************************************************************)
C4_CoDispatchHalved ==
    Returned =>
        \A k \in DOMAIN plan.waves : \A i \in DOMAIN plan.waves[k].assignments :
            LET w == plan.waves[k]
                a == w.assignments[i]
            IN  IF FirstOfAgent(w, i)
                THEN a.duration_minutes = RawMinutes(a)
                ELSE 2 * a.duration_minutes = RawMinutes(a)

(***************************************************************************)
(* C5. For every wave and every agent with a task in it,                   *)
(* agent_review_minutes has an entry for the agent, equal to the largest   *)
(* review_minutes among the agent's tasks in that wave.                    *)
(***************************************************************************)
C5_ReviewPerAgentPerWave ==
    Returned =>
        \A k \in DOMAIN plan.waves : \A name \in AgentsIn(plan.waves[k]) :
            /\ name \in DOMAIN plan.waves[k].agent_review_minutes
            /\ plan.waves[k].agent_review_minutes[name]
                  = LargestReview(plan.waves[k], name)

(***************************************************************************)
(* C6. The length of every wave is the largest, over the slots holding a   *)
(* task, of the discounted durations on the slot plus the review charge of *)
(* the slot's agent (both sides doubled to stay in the integers).          *)
(***************************************************************************)
TwiceSlotTotal(w, slot) ==
    SumSeq([i \in DOMAIN w.assignments |->
               IF OnSlot(w.assignments[i], slot) THEN TwiceDiscounted(w, i)
               ELSE 0])
    + 2 * LargestReview(w, slot[1])

C6_WaveLength ==
    Returned =>
        \A k \in DOMAIN plan.waves :
            LET w == plan.waves[k]
            IN  2 * (w.end_minutes - w.start_minutes)
                  = MaxOfSet({TwiceSlotTotal(w, slot) : slot \in SlotsIn(w)})

(***************************************************************************)
(* C7. The critical path of a returned plan over a non-empty task set is a *)
(* dependency chain that starts at a task without dependencies, its        *)
(* minutes are the sum of the raw durations on it, and no dependency chain *)
(* of the task set has a larger sum.                                       *)
(***************************************************************************)
\* The dependency chains that end at v (the task set is acyclic here).
RECURSIVE ChainsEndingAt(_)
ChainsEndingAt(v) ==
    {<<v>>} \cup UNION {{Append(c, v) : c \in ChainsEndingAt(u)} :
                        u \in Range(tasks[v].dependencies)}

Chains == UNION {ChainsEndingAt(v) : v \in TaskIds(tasks)}

ChainMinutes(c) == SumSeq([i \in DOMAIN c |-> tasks[c[i]].duration_minutes])

C7_CriticalPath ==
    (Returned /\ tasks # <<>>) =>
        LET cp == plan.critical_path
        IN  /\ cp # <<>>
            /\ tasks[cp[1]].dependencies = <<>>
            /\ \A i \in 1..(Len(cp) - 1) : DependsOn(cp[i], cp[i + 1])
            /\ plan.critical_path_minutes = ChainMinutes(cp)
            /\ \A c \in Chains : ChainMinutes(c) <= plan.critical_path_minutes

\* Two chains of three tasks between the same ends, the critical one
\* strictly longer in minutes, the other one listed first in the tuple.
C7_Witness ==
    /\ Returned
    /\ Len(plan.critical_path) = 3
    /\ \E c \in Chains :
          /\ Len(c) = 3
          /\ c[1] = plan.critical_path[1]
          /\ c[3] = plan.critical_path[3]
          /\ ChainMinutes(c) < plan.critical_path_minutes
          /\ tasks[c[3]].dependencies[1] = c[2]

(***************************************************************************)
(* C8. The first wave starts at 0, every wave ends at its start plus its   *)
(* makespan, every later wave starts at the previous end plus 60 minutes   *)
(* per hour of overhead, and the total wall clock is the end of the last   *)
(* wave (no overhead after it).  The makespan is taken from what the wave  *)
(* records: the minutes of its assignments, slot by slot, plus the review  *)
(* charge it records for the slot's agent.                                 *)
(***************************************************************************)
RecordedReview(w, name) ==
    IF name \in DOMAIN w.agent_review_minutes THEN w.agent_review_minutes[name]
    ELSE 0

RecordedSlotTotal(w, slot) ==
    SumSeq([i \in DOMAIN w.assignments |->
               IF OnSlot(w.assignments[i], slot)
               THEN w.assignments[i].duration_minutes ELSE 0])
    + RecordedReview(w, slot[1])

RecordedMakespan(w) ==
    MaxOfSet({RecordedSlotTotal(w, slot) : slot \in SlotsIn(w)})

C8_WaveTiming ==
    (Returned /\ plan.waves # <<>>) =>
        /\ plan.waves[1].start_minutes = 0
        /\ \A k \in DOMAIN plan.waves :
              plan.waves[k].end_minutes
                 = plan.waves[k].start_minutes + RecordedMakespan(plan.waves[k])
        /\ \A k \in 2..Len(plan.waves) :
              plan.waves[k].start_minutes
                 = plan.waves[k - 1].end_minutes + 60 * inter_wave_overhead_hours
        /\ plan.total_wall_clock_minutes = Last(plan.waves).end_minutes

\* Three waves with a positive overhead, one of them with two loaded slots
\* of different totals.
C8_Witness ==
    /\ Returned
    /\ Len(plan.waves) >= 3
    /\ inter_wave_overhead_hours > 0
    /\ \E k \in DOMAIN plan.waves : \E s1, s2 \in SlotsIn(plan.waves[k]) :
          RecordedSlotTotal(plan.waves[k], s1)
             < RecordedSlotTotal(plan.waves[k], s2)

(***************************************************************************)
(* C9. As claimed: the gap between consecutive waves equals the value of   *)
(* the third argument of plan_waves (the argument read as minutes).        *)
(***************************************************************************)
C9_GapIsArgument ==
    Returned =>
        \A k \in 2..Len(plan.waves) :
            plan.waves[k].start_minutes - plan.waves[k - 1].end_minutes
               = inter_wave_overhead_hours

(***************************************************************************)
(* C9, amended. The third argument is in hours: the gap between            *)
(* consecutive waves is 60 times its value.                                *)
(***************************************************************************)
C9_GapIsSixtyPerHour ==
    Returned =>
        \A k \in 2..Len(plan.waves) :
            plan.waves[k].start_minutes - plan.waves[k - 1].end_minutes
               = 60 * inter_wave_overhead_hours

\* Two consecutive waves planned with one hour of overhead.
C9_Witness ==
    /\ Returned
    /\ inter_wave_overhead_hours = 1
    /\ Len(plan.waves) >= 2
    /\ plan.waves[2].start_minutes = plan.waves[1].end_minutes + 60

(***************************************************************************)
(* C10. An empty task list with at least one agent and a non-negative      *)
(* overhead returns, without error, a plan with no waves, no critical      *)
(* path, and zero critical-path minutes, wall clock, sequential minutes    *)
(* and parallel efficiency.                                                *)
(***************************************************************************)
C10_EmptyTaskList ==
    (/\ pc # "start"
     /\ tasks = <<>>
     /\ agents # <<>>
     /\ inter_wave_overhead_hours >= 0)
    => /\ Returned
       /\ error = NoError
       /\ plan.waves = <<>>
       /\ plan.critical_path = <<>>
       /\ plan.critical_path_minutes = 0
       /\ plan.total_wall_clock_minutes = 0
       /\ plan.total_sequential_minutes = 0
       /\ plan.parallel_efficiency.num = 0

\* The call with no task, one agent and a positive overhead has returned.
C10_Witness ==
    /\ Returned
    /\ tasks = <<>>
    /\ agents # <<>>
    /\ inter_wave_overhead_hours > 0

(***************************************************************************)
(* C11. When some task lists a dependency id that no task of the set       *)
(* carries and the overhead is non-negative, the call raises the           *)
(* unknown-dependency error and returns no plan, whatever the roster; the  *)
(* error names a task and an id that the task lists as a dependency and    *)
(* that no task carries.                                                   *)
(***************************************************************************)
C11_UnknownDependencyRaises ==
    (/\ pc # "start"
     /\ inter_wave_overhead_hours >= 0
     /\ ~AllDependenciesKnown)
    => /\ Raised("UnknownDependency")
       /\ plan = NoPlan
       /\ error.task \in TaskIds(tasks)
       /\ error.dep \notin TaskIds(tasks)
       /\ DependsOn(error.dep, error.task)

\* The error is raised with an empty roster, for a task that sits on a
\* dependency cycle and lists a known id before the missing one.
C11_Witness ==
    /\ Raised("UnknownDependency")
    /\ agents = <<>>
    /\ DependencyCycle
    /\ tasks[error.task].dependencies[1] \in TaskIds(tasks)
    /\ \E e \in PathPairs(DependencyEdges, Len(tasks)) :
          e[1] = error.task /\ e[2] = error.task

(***************************************************************************)
(* Vocabulary of C12: a task that no agent of the roster can take.         *)
(***************************************************************************)
Unservable(tid) ==
    \A a \in DOMAIN agents :
        ~(tasks[tid].required_capabilities \subseteq agents[a].capabilities)

SomeTaskUnservable == \E tid \in TaskIds(tasks) : Unservable(tid)

NamesUnservableTask ==
    /\ error.task \in TaskIds(tasks)
    /\ Unservable(error.task)
    /\ error.required = tasks[error.task].required_capabilities

(***************************************************************************)
(* C12. As claimed: for a task set with known dependency ids and no cycle, *)
(* and a non-empty roster, if some task is unservable then no plan is ever *)
(* returned and the call ends with the no-eligible-agent error naming an   *)
(* unservable task and its required capabilities (nothing is assumed of    *)
(* the overhead).                                                          *)
(***************************************************************************)
C12_NoEligibleAgentRaises ==
    (/\ AllDependenciesKnown
     /\ ~DependencyCycle
     /\ agents # <<>>
     /\ SomeTaskUnservable)
    => /\ ~Returned
       /\ pc = "raised"
             => (Raised("NoEligibleAgent") /\ NamesUnservableTask
                 /\ plan = NoPlan)

(***************************************************************************)
(* C12, amended. The same with a non-negative overhead: a negative         *)
(* overhead is rejected first, with the invalid-overhead error.            *)
(***************************************************************************)
C12_NoEligibleAgentRaisesNonNegative ==
    (/\ AllDependenciesKnown
     /\ ~DependencyCycle
     /\ agents # <<>>
     /\ inter_wave_overhead_hours >= 0
     /\ SomeTaskUnservable)
    => /\ ~Returned
       /\ pc = "raised"
             => (Raised("NoEligibleAgent") /\ NamesUnservableTask
                 /\ plan = NoPlan)

\* The unservable task is in the second generation: the error is raised
\* after the first generation was packed on a roster of two agents.
C12_Witness ==
    /\ Raised("NoEligibleAgent")
    /\ NamesUnservableTask
    /\ tasks[error.task].dependencies # <<>>
    /\ waves # <<>>
    /\ Len(agents) = 2

(***************************************************************************)
(* C13. As claimed: with an empty roster, a non-negative overhead, known   *)
(* dependency ids and no cycle, the call raises the no-agents error and    *)
(* returns no plan, whatever the task list is.                             *)
(***************************************************************************)
C13_NoAgentsRaises ==
    (/\ pc # "start"
     /\ agents = <<>>
     /\ inter_wave_overhead_hours >= 0
     /\ AllDependenciesKnown
     /\ ~DependencyCycle)
    => /\ Raised("NoAgentsProvided")
       /\ plan = NoPlan

(***************************************************************************)
(* C13, amended. The same for a non-empty task list; an empty task list    *)
(* returns the empty plan whatever the roster is.                          *)
(***************************************************************************)
C13_NoAgentsRaisesForTasks ==
    (/\ pc # "start"
     /\ agents = <<>>
     /\ inter_wave_overhead_hours >= 0
     /\ AllDependenciesKnown
     /\ ~DependencyCycle)
    => IF tasks = <<>>
       THEN Returned /\ plan.waves = <<>> /\ error = NoError
       ELSE Raised("NoAgentsProvided") /\ plan = NoPlan

\* The no-agents error is raised for two tasks, one depending on the other,
\* the first requiring a capability, with a positive overhead.
C13_Witness ==
    /\ Raised("NoAgentsProvided")
    /\ Len(tasks) = 2
    /\ \E v \in TaskIds(tasks) : tasks[v].dependencies # <<>>
    /\ tasks[1].required_capabilities # {}
    /\ inter_wave_overhead_hours > 0

(***************************************************************************)
(* C14. With a negative overhead the call raises the invalid-overhead      *)
(* error, which states the value, and returns no plan, whatever the task   *)
(* list and the roster are.                                                *)
(***************************************************************************)
C14_NegativeOverheadRaises ==
    (pc # "start" /\ inter_wave_overhead_hours < 0)
    => /\ Raised("InvalidOverhead")
       /\ error.value = inter_wave_overhead_hours
       /\ plan = NoPlan

\* The invalid-overhead error is raised for a call that also has an empty
\* roster, an unknown dependency id and a dependency cycle.
C14_Witness ==
    /\ Raised("InvalidOverhead")
    /\ agents = <<>>
    /\ ~AllDependenciesKnown
    /\ DependencyCycle

(***************************************************************************)
(* Vocabulary of the metrics, read off the returned plan and the inputs.   *)
(***************************************************************************)
\* The minutes wave w records for the assignments of agent name.
WaveMinutesOf(w, name) ==
    SumSeq([i \in DOMAIN w.assignments |->
               IF w.assignments[i].agent_name = name
               THEN w.assignments[i].duration_minutes ELSE 0])

\* The same over all the waves of the plan.
AssignedMinutes(name) ==
    SumSeq([k \in DOMAIN plan.waves |-> WaveMinutesOf(plan.waves[k], name)])

\* The agent has no assignment in any wave of the plan.
Idle(name) == \A k \in DOMAIN plan.waves : name \notin AgentsIn(plan.waves[k])

\* The total slot count: the sum of parallelism over the roster.
SlotCount == SumSeq([a \in DOMAIN agents |-> agents[a].parallelism])

(***************************************************************************)
(* C16. In every returned plan (durations and review minutes are never     *)
(* negative) every utilization is a quotient >= 0 and the parallel         *)
(* efficiency is a quotient in [0, 1], also when the wall clock is 0.      *)
(***************************************************************************)
C16_MetricsBounded ==
    Returned =>
        /\ \A n \in DOMAIN plan.agent_utilization :
              /\ plan.agent_utilization[n].den > 0
              /\ plan.agent_utilization[n].num >= 0
        /\ plan.parallel_efficiency.den > 0
        /\ plan.parallel_efficiency.num >= 0
        /\ plan.parallel_efficiency.num <= plan.parallel_efficiency.den

\* A plan over tasks that all last 0 minutes, on two agents: the wall
\* clock is 0.
C16_Witness ==
    /\ Returned
    /\ tasks # <<>>
    /\ Len(agents) = 2
    /\ plan.total_wall_clock_minutes = 0
    /\ \A i \in DOMAIN tasks : tasks[i].duration_minutes = 0

(***************************************************************************)
(* C17. In every returned plan with a positive wall clock, for every agent *)
(* of the roster, utilization times wall clock equals the sum of the       *)
(* duration_minutes of the agent's assignments over all waves and slots.   *)
(***************************************************************************)
C17_UtilizationIsAssignedWork ==
    (Returned /\ plan.total_wall_clock_minutes > 0) =>
        \A n \in AgentNames(agents) :
            /\ n \in DOMAIN plan.agent_utilization
            /\ plan.agent_utilization[n].den > 0
            /\ plan.agent_utilization[n].num * plan.total_wall_clock_minutes
                  = AssignedMinutes(n) * plan.agent_utilization[n].den

\* An agent has work in two waves and, in one of them, on its second slot.
C17_Witness ==
    /\ Returned
    /\ plan.total_wall_clock_minutes > 0
    /\ \E n \in AgentNames(agents) : \E k1, k2 \in DOMAIN plan.waves :
          /\ k1 # k2
          /\ WaveMinutesOf(plan.waves[k1], n) > 0
          /\ WaveMinutesOf(plan.waves[k2], n) > 0
          /\ \E i \in DOMAIN plan.waves[k2].assignments :
                /\ plan.waves[k2].assignments[i].agent_name = n
                /\ plan.waves[k2].assignments[i].slot_index = 1
                /\ plan.waves[k2].assignments[i].duration_minutes > 0

(***************************************************************************)
(* C18. In every returned plan, the plan for an empty task list included,  *)
(* every agent of the roster without an assignment has a utilization       *)
(* entry, and the entry is 0.                                              *)
(***************************************************************************)
C18_IdleAgentsReportZero ==
    Returned =>
        \A n \in AgentNames(agents) :
            Idle(n) => /\ n \in DOMAIN plan.agent_utilization
                       /\ plan.agent_utilization[n].den > 0
                       /\ plan.agent_utilization[n].num = 0

(***************************************************************************)
(* C19. total_sequential_minutes is the sum of the raw durations of all    *)
(* tasks plus, for every wave and every agent with a task in it, one       *)
(* review charge: the largest review_minutes among the agent's tasks in    *)
(* that wave.                                                              *)
(***************************************************************************)
AmortizedReview(w) ==
    SumSeq([a \in DOMAIN agents |->
               IF agents[a].name \in AgentsIn(w)
               THEN LargestReview(w, agents[a].name) ELSE 0])

C19_SequentialAmortizesReview ==
    Returned =>
        plan.total_sequential_minutes
           = SumSeq([i \in DOMAIN tasks |-> tasks[i].duration_minutes])
             + SumSeq([k \in DOMAIN plan.waves |-> AmortizedReview(plan.waves[k])])

(***************************************************************************)
(* C20. In every returned plan with a positive wall clock the parallel     *)
(* efficiency is min(1, total_sequential_minutes / (S x wall clock)), S    *)
(* being the sum of parallelism over the roster.                           *)
(***************************************************************************)
C20_EfficiencyOverAllSlots ==
    (Returned /\ plan.total_wall_clock_minutes > 0) =>
        LET e == plan.parallel_efficiency
            capacity == SlotCount * plan.total_wall_clock_minutes
        IN  /\ e.den > 0
            /\ IF plan.total_sequential_minutes >= capacity
               THEN e.num = e.den
               ELSE e.num * capacity = plan.total_sequential_minutes * e.den

\* Two agents with three slots or more, one of the agents idle, and an
\* efficiency below 1.
C20_Witness ==
    /\ Returned
    /\ plan.total_wall_clock_minutes > 0
    /\ Len(agents) = 2
    /\ SlotCount >= 3
    /\ \E n \in AgentNames(agents) : Idle(n)
    /\ plan.parallel_efficiency.num < plan.parallel_efficiency.den

(***************************************************************************)
(* C21. In every wave, every task of an agent that has two tasks or more   *)
(* in the wave carries as co_dispatch_group the ids of all the agent's     *)
(* tasks in the wave, and a task alone on its agent carries the empty      *)
(* group (so tasks of different agents never share a group).               *)
(***************************************************************************)
\* The ids of the tasks wave w gives to agent name.
TasksOfAgent(w, name) ==
    {w.assignments[i].task_id :
        i \in {j \in DOMAIN w.assignments : w.assignments[j].agent_name = name}}

C21_CoDispatchGroup ==
    Returned =>
        \A k \in DOMAIN plan.waves : \A i \in DOMAIN plan.waves[k].assignments :
            LET w == plan.waves[k]
                a == w.assignments[i]
                mates == TasksOfAgent(w, a.agent_name)
            IN  IF Cardinality(mates) >= 2
                THEN Range(a.co_dispatch_group) = mates
                ELSE a.co_dispatch_group = <<>>

(***************************************************************************)
(* C22. No error follows the construction of a wave: whenever the call     *)
(* has ended with an error, no wave had been built.                        *)
(***************************************************************************)
C22_ErrorsBeforeAnyWave == pc = "raised" => waves = <<>>

(***************************************************************************)
(* C23. The waves of a returned plan are the topological generations: a    *)
(* task without dependencies is in wave 0, any other task is in the wave   *)
(* after the latest wave of its dependencies, wave k carries wave_number   *)
(* k, no wave is empty, and there are as many waves as there are tasks on  *)
(* the longest dependency chain.                                           *)
(***************************************************************************)
\* The 0-based index of the wave that holds task tid.
WaveIndexOf(tid) == (CHOOSE k \in WavesOf(plan.waves, tid) : TRUE) - 1

LongestChainLength == MaxOfSet({Len(c) : c \in Chains} \cup {0})

C23_WavesAreGenerations ==
    Returned =>
        /\ \A k \in DOMAIN plan.waves :
              /\ plan.waves[k].wave_number = k - 1
              /\ plan.waves[k].assignments # <<>>
        /\ \A v \in TaskIds(tasks) :
              /\ WavesOf(plan.waves, v) # {}
              /\ WaveIndexOf(v) =
                    IF tasks[v].dependencies = <<>> THEN 0
                    ELSE 1 + MaxOfSet({WaveIndexOf(u) :
                                         u \in Range(tasks[v].dependencies)})
        /\ Len(plan.waves) = LongestChainLength

\* Three waves or more, a task whose dependencies sit in different waves,
\* and a task listed in the input before one of its dependencies.
C23_Witness ==
    /\ Returned
    /\ Len(plan.waves) >= 3
    /\ \E v \in TaskIds(tasks) : \E u1, u2 \in Range(tasks[v].dependencies) :
          WaveIndexOf(u1) < WaveIndexOf(u2)
    /\ \E v \in TaskIds(tasks) : \E u \in Range(tasks[v].dependencies) : v < u

(***************************************************************************)
(* Vocabulary of the packing claims: the slots of the roster, their order, *)
(* and the raw load of a slot inside one wave, read off the assignments.   *)
(***************************************************************************)
AgentIndex(name) == CHOOSE a \in DOMAIN agents : agents[a].name = name

AllSlots ==
    UNION {{<<agents[a].name, i>> : i \in 0..(agents[a].parallelism - 1)} :
           a \in DOMAIN agents}

\* Roster order: agents in input order, then slot index ascending.
SlotBefore(s1, s2) ==
    \/ AgentIndex(s1[1]) < AgentIndex(s2[1])
    \/ s1[1] = s2[1] /\ s1[2] < s2[2]

EligibleSlot(tid, slot) ==
    tasks[tid].required_capabilities
        \subseteq agents[AgentIndex(slot[1])].capabilities

SlotOf(a) == <<a.agent_name, a.slot_index>>

\* The raw minutes put on slot in wave w by the assignments before the i-th.
RawLoadBefore(w, i, slot) ==
    SumSeq([j \in 1..(i - 1) |->
               IF OnSlot(w.assignments[j], slot)
               THEN RawMinutes(w.assignments[j]) ELSE 0])

(***************************************************************************)
(* C24. In every wave the assignments are in order of descending raw       *)
(* duration, and each task is on an eligible slot whose raw load in this   *)
(* wave was minimal among the eligible slots when the task was assigned,   *)
(* the first such slot in roster order; earlier waves play no part.        *)
(***************************************************************************)
C24_LeastLoadedEligibleSlot ==
    Returned =>
        \A k \in DOMAIN plan.waves : \A i \in DOMAIN plan.waves[k].assignments :
            LET w == plan.waves[k]
                a == w.assignments[i]
                chosen == SlotOf(a)
            IN  /\ i > 1 => RawMinutes(w.assignments[i - 1]) >= RawMinutes(a)
                /\ chosen \in AllSlots
                /\ EligibleSlot(a.task_id, chosen)
                /\ \A s \in AllSlots :
                      EligibleSlot(a.task_id, s) =>
                         /\ RawLoadBefore(w, i, chosen) <= RawLoadBefore(w, i, s)
                         /\ SlotBefore(s, chosen) =>
                               RawLoadBefore(w, i, chosen) < RawLoadBefore(w, i, s)

\* In a later wave a task goes to the first slot, which worked in an
\* earlier wave, although another eligible slot has not worked at all.
C24_Witness ==
    /\ Returned
    /\ \E k \in 2..Len(plan.waves) : \E i \in DOMAIN plan.waves[k].assignments :
          LET a == plan.waves[k].assignments[i]
          IN  /\ RawMinutes(a) > 0
              /\ \E j \in 1..(k - 1) : \E m \in DOMAIN plan.waves[j].assignments :
                    /\ SlotOf(plan.waves[j].assignments[m]) = SlotOf(a)
                    /\ RawMinutes(plan.waves[j].assignments[m]) > 0
              /\ \E s \in AllSlots :
                    /\ s # SlotOf(a)
                    /\ EligibleSlot(a.task_id, s)
                    /\ \A j \in 1..(k - 1) :
                          \A m \in DOMAIN plan.waves[j].assignments :
                             SlotOf(plan.waves[j].assignments[m]) # s

(***************************************************************************)
(* C25. In every wave, of two tasks of equal raw duration the one listed   *)
(* earlier in the input is assigned first.                                 *)
(***************************************************************************)
C25_TiesInInputOrder ==
    Returned =>
        \A k \in DOMAIN plan.waves : \A i, j \in DOMAIN plan.waves[k].assignments :
            LET a == plan.waves[k].assignments[i]
                b == plan.waves[k].assignments[j]
            IN  (i < j /\ RawMinutes(a) = RawMinutes(b)) => a.task_id < b.task_id

(***************************************************************************)
(* Vocabulary of C26: the largest raw slot load of a wave, and the         *)
(* smallest largest load over all placements of the wave's tasks on m      *)
(* interchangeable slots.                                                  *)
(***************************************************************************)
\* Every task of wave w is eligible for every slot of the roster.
AllEligible(w) ==
    \A i \in DOMAIN w.assignments : \A s \in AllSlots :
        EligibleSlot(w.assignments[i].task_id, s)

LargestSlotLoad(w) ==
    MaxOfSet({RawLoadBefore(w, Len(w.assignments) + 1, s) : s \in AllSlots})

\* The placements of n tasks on m interchangeable slots, as sequences of
\* slot numbers; the i-th task uses one of the first i slots, which loses
\* no placement up to a renaming of the slots.
RECURSIVE Placements(_, _)
Placements(n, m) ==
    IF n = 0 THEN {<<>>}
    ELSE {Append(g, b) : g \in Placements(n - 1, m),
                         b \in 1..(IF n < m THEN n ELSE m)}

PlacementMakespan(w, g, m) ==
    MaxOfSet({SumSeq([i \in DOMAIN g |->
                         IF g[i] = b THEN RawMinutes(w.assignments[i]) ELSE 0]) :
              b \in 1..m})

OptimalMakespan(w, m) ==
    LET spans == {PlacementMakespan(w, g, m) :
                    g \in Placements(Len(w.assignments), m)}
    IN  CHOOSE x \in spans : \A y \in spans : x <= y

(***************************************************************************)
(* C26. As claimed: in a wave whose tasks are all eligible for each of the *)
(* m slots, the largest raw slot load is at most (4/3 - 1/(2m)) times the  *)
(* optimum, i.e. 6m x load <= (8m - 3) x optimum.                          *)
(***************************************************************************)
C26_LptWithinClaimedBound ==
    Returned =>
        \A k \in DOMAIN plan.waves :
            LET w == plan.waves[k]
                m == Cardinality(AllSlots)
            IN  AllEligible(w) =>
                   6 * m * LargestSlotLoad(w)
                      <= (8 * m - 3) * OptimalMakespan(w, m)

(***************************************************************************)
(* C26, amended. The bound of the LPT rule is 4/3 - 1/(3m): in such a wave *)
(* 3m x load <= (4m - 1) x optimum.                                        *)
(***************************************************************************)
C26_LptWithinGrahamBound ==
    Returned =>
        \A k \in DOMAIN plan.waves :
            LET w == plan.waves[k]
                m == Cardinality(AllSlots)
            IN  AllEligible(w) =>
                   3 * m * LargestSlotLoad(w)
                      <= (4 * m - 1) * OptimalMakespan(w, m)

\* A wave on two slots or more where the LPT load exceeds the optimum and
\* meets the bound 4/3 - 1/(3m) exactly.
C26_Witness ==
    /\ Returned
    /\ Cardinality(AllSlots) >= 2
    /\ \E k \in DOMAIN plan.waves :
          LET w == plan.waves[k]
              m == Cardinality(AllSlots)
          IN  /\ AllEligible(w)
              /\ LargestSlotLoad(w) > OptimalMakespan(w, m)
              /\ 3 * m * LargestSlotLoad(w) = (4 * m - 1) * OptimalMakespan(w, m)

(***************************************************************************)
(* C27. In every returned plan every input task has exactly one            *)
(* assignment, in exactly one wave; the agent of every assignment is an    *)
(* agent of the roster and 0 <= slot_index < the agent's parallelism.      *)
(***************************************************************************)
\* The <<wave, position>> pairs of the assignments of task tid.
AssignmentsOf(tid) ==
    {q \in UNION {{<<k, i>> : i \in DOMAIN plan.waves[k].assignments} :
                  k \in DOMAIN plan.waves} :
        plan.waves[q[1]].assignments[q[2]].task_id = tid}

C27_EveryTaskOnceOnARealSlot ==
    Returned =>
        /\ \A tid \in TaskIds(tasks) : Cardinality(AssignmentsOf(tid)) = 1
        /\ \A k \in DOMAIN plan.waves : \A i \in DOMAIN plan.waves[k].assignments :
              LET a == plan.waves[k].assignments[i]
              IN  /\ a.task_id \in TaskIds(tasks)
                  /\ a.agent_name \in AgentNames(agents)
                  /\ a.slot_index >= 0
                  /\ a.slot_index < AgentNamed(a.agent_name).parallelism

\* Two waves or more, three tasks or more, and in a later wave a task on
\* the last slot of an agent with two slots or more.
C27_Witness ==
    /\ Returned
    /\ Len(tasks) >= 3
    /\ \E k \in 2..Len(plan.waves) : \E i \in DOMAIN plan.waves[k].assignments :
          LET a == plan.waves[k].assignments[i]
          IN  /\ a.slot_index >= 1
              /\ a.slot_index = AgentNamed(a.agent_name).parallelism - 1

(***************************************************************************)
(* C28. In every returned plan (durations and overhead are non-negative)   *)
(* the critical-path minutes do not exceed the total wall clock.           *)
(***************************************************************************)
C28_CriticalPathBoundsWallClock ==
    (Returned /\ inter_wave_overhead_hours >= 0) =>
        plan.critical_path_minutes <= plan.total_wall_clock_minutes

\* Without overhead: a plan of two waves or more on two slots or more
\* whose wall clock equals the critical path, which is longer than the
\* longest task.
C28_Witness ==
    /\ Returned
    /\ inter_wave_overhead_hours = 0
    /\ Len(plan.waves) >= 2
    /\ Cardinality(AllSlots) >= 2
    /\ plan.critical_path_minutes = plan.total_wall_clock_minutes
    /\ \A i \in DOMAIN tasks :
          tasks[i].duration_minutes < plan.critical_path_minutes

(***************************************************************************)
(* C29. A finished call has exactly the outcome of the first case that     *)
(* applies, in this order: negative overhead; empty task list (the empty   *)
(* plan, also with an empty roster); unknown dependency, reported for the  *)
(* first offending task in input order; cycle; empty roster; a task no     *)
(* agent can take; otherwise a plan.                                       *)
(***************************************************************************)
\* The first task in input order that lists an id no task carries.
FirstOffendingTask ==
    CHOOSE v \in TaskIds(tasks) :
        /\ ~(Range(tasks[v].dependencies) \subseteq TaskIds(tasks))
        /\ \A u \in TaskIds(tasks) :
              u < v => Range(tasks[u].dependencies) \subseteq TaskIds(tasks)

ExpectedOutcome ==
    IF inter_wave_overhead_hours < 0 THEN "InvalidOverhead"
    ELSE IF tasks = <<>> THEN "EmptyPlan"
    ELSE IF ~AllDependenciesKnown THEN "UnknownDependency"
    ELSE IF DependencyCycle THEN "CycleDetected"
    ELSE IF agents = <<>> THEN "NoAgentsProvided"
    ELSE IF SomeTaskUnservable THEN "NoEligibleAgent"
    ELSE "Plan"

C29_ErrorPrecedence ==
    (pc \in {"returned", "raised"}) =>
        /\ ExpectedOutcome = "EmptyPlan" => (Returned /\ plan.waves = <<>>)
        /\ ExpectedOutcome = "Plan" => (Returned /\ plan.waves # <<>>)
        /\ ExpectedOutcome \notin {"EmptyPlan", "Plan"} => Raised(ExpectedOutcome)
        /\ ExpectedOutcome = "UnknownDependency" => error.task = FirstOffendingTask
        /\ Returned => error = NoError

\* The cycle error is raised although the roster is empty and the first
\* task requires a capability.
C29_Witness ==
    /\ Raised("CycleDetected")
    /\ agents = <<>>
    /\ tasks[1].required_capabilities # {}

(***************************************************************************)
(* C30. In every returned plan the utilization entry of every agent of the *)
(* roster is at most the agent's parallelism (durations are never          *)
(* negative).  For an empty task list the plan has no entries: see C18.    *)
(***************************************************************************)
C30_UtilizationAtMostParallelism ==
    Returned =>
        \A n \in AgentNames(agents) :
            n \in DOMAIN plan.agent_utilization =>
                /\ plan.agent_utilization[n].den > 0
                /\ plan.agent_utilization[n].num
                      <= AgentNamed(n).parallelism * plan.agent_utilization[n].den

\* Two agents: one with two slots whose utilization exceeds 1, one with a
\* single slot whose utilization is exactly 1.
C30_Witness ==
    /\ Returned
    /\ \E n1, n2 \in DOMAIN plan.agent_utilization :
          /\ AgentNamed(n1).parallelism > 1
          /\ plan.agent_utilization[n1].num > plan.agent_utilization[n1].den
          /\ AgentNamed(n2).parallelism = 1
          /\ plan.agent_utilization[n2].num = plan.agent_utilization[n2].den

====
